---- MODULE Spec2Model ----
(***************************************************************************)
(* Model of listing.py: a typer command-line tool with three commands,     *)
(* list_tickers, prices and market_prices, that fetch tables from          *)
(* FinanceDataReader and export them below data/.                          *)
(*                                                                         *)
(* A data frame is a record [name, index, columns, data]: the index name,  *)
(* the row labels, the column names and the rows (one tuple of cell        *)
(* values per row, aligned with columns).  A series is [name, index,       *)
(* values].  A file is a sequence of lines, each line the tuple of its     *)
(* comma-separated fields.  The file system is a function from the paths   *)
(* of the existing files to their contents, plus the set of directories.   *)
(***************************************************************************)
EXTENDS Integers, Sequences, FiniteSets, TLC

VARIABLES
    pc,        \* where the process is
    cmd, arg,  \* the command and its argument (market or code)
    listing,   \* df as returned by fdr.StockListing
    df,        \* df after its reassignment (normalized frame, price table)
    codes,     \* the identifier column market_prices iterates
    iter,      \* iterations of the for loop completed
    i, code,   \* the loop variables
    bar,       \* the progress bar
    fs, dirs,  \* files (path -> lines) and directories on disk
    stdout, exitCode,
    log,       \* calls made by this run to the provider, the disk, the bar
    written,   \* the lines of each to_csv of this market_prices run
    fs0, dirs0,   \* the disk when this run started
    prevResponse, \* the listing of the run before, if that was a completed
                  \* list_tickers of the same market
    rerun      \* this list_tickers run got the same listing as the one before

run == <<cmd, arg, listing, df, codes, iter, i, code, bar, stdout, exitCode,
         log, written>>

vars == <<pc, run, fs, dirs, fs0, dirs0, prevResponse, rerun>>

(* -------- bounds of the model -------- *)

\* longest listing table the provider returns
MaxListing == 2

\* longest price history returned to the prices command
MaxTailRows == 6

\* longest price history returned to market_prices
MaxBatchRows == 0

(* -------- program constants -------- *)

market_list ==
    << "KRX", "KOSPI", "KOSDAQ", "KONEX", "KRX-MARCAP", "KRX-DESC",
       "KOSPI-DESC", "KOSDAQ-DESC", "KONEX-DESC", "NASDAQ", "NYSE", "AMEX",
       "SSE", "SZSE", "HKEX", "TSE", "HOSE", "KRX-DELISTING",
       "KRX-ADMINISTRATIVE", "S&P500", "SP500" >>

\* DataFrame.tail() is called without argument: the pandas default n
TailRows == 5

(* -------- generic helpers -------- *)

Range(s) == { s[k] : k \in 1..Len(s) }

SeqUpTo(S, n) == UNION { [1..k -> S] : k \in 0..n }

Max(a, b) == IF a >= b THEN a ELSE b

EmptyDF == [name |-> "", index |-> <<>>, columns |-> <<>>, data |-> <<>>]

(* -------- the command line -------- *)

Commands == {"list_tickers", "prices", "market_prices"}

\* market names tried on the command line: one of market_list and two
\* that are not (a lower-case spelling and an unknown name)
MarketArgs == {"KOSPI", "kospi", "XKRX"}

CodeArgs == {"AAA"}

\* what a case-insensitive comparison would do to the names tried
Upper(market) == IF market = "kospi" THEN "KOSPI" ELSE market

\* variant: membership that ignores case
IsSupported_nocase(market) == Upper(market) \in Range(market_list)

\* `market not in market_list` negated
IsSupported(market) == market \in Range(market_list)

UnsupportedMessage(market) == market \o " market is not supports"

(* -------- the data provider -------- *)

\* the securities a listing row can describe; the Code and the Symbol
\* column of a row hold different identifiers
BaseRows ==
    { [Code |-> "AAA", Symbol |-> "BBB", Name |-> "Alpha", Market |-> "KOSPI"],
      [Code |-> "BBB", Symbol |-> "AAA", Name |-> "Beta", Market |-> "KOSPI"] }

\* the column layouts a listing table can have
Schemas ==
    { <<"Code", "Name", "Market">>,
      <<"Symbol", "Name">>,
      <<"Code", "Symbol", "Name">>,
      <<"Name", "Market">> }

\* a listing table: default RangeIndex 0..n-1 without a name
ListingTable(cols, rows) ==
    [name |-> "",
     index |-> [k \in 1..Len(rows) |-> ToString(k - 1)],
     columns |-> cols,
     data |-> [k \in 1..Len(rows) |-> [j \in 1..Len(cols) |-> rows[k][cols[j]]]]]

ListingTables ==
    { ListingTable(c, r) : c \in Schemas, r \in SeqUpTo(BaseRows, MaxListing) }

\* a price history of n rows, indexed by date
PriceTable(n) ==
    [name |-> "Date",
     index |-> [k \in 1..n |-> "2018-01-0" \o ToString(k)],
     columns |-> <<"Close">>,
     data |-> [k \in 1..n |-> << ToString(100 + k) >>]]

PriceTables(n) == { PriceTable(k) : k \in 0..n }

(* -------- pandas -------- *)

HasColumn(d, c) == \E k \in 1..Len(d.columns) : d.columns[k] = c

ColPos(d, c) == CHOOSE k \in 1..Len(d.columns) : d.columns[k] = c

\* d[c]: the series of column c, carrying the frame's index
Column(d, c) ==
    [name |-> d.name,
     index |-> d.index,
     values |-> [k \in 1..Len(d.data) |-> d.data[k][ColPos(d, c)]]]

\* variant: "Symbol" preferred over "Code"
IdColumn_symbol_first(d) == IF HasColumn(d, "Symbol") THEN "Symbol" ELSE "Code"

\* "Code" if "Code" in df.columns else "Symbol"
IdColumn(d) == IF HasColumn(d, "Code") THEN "Code" ELSE "Symbol"

\* variant: the last row is lost
DataFrame2_drop_last(cs, ns) ==
    [name |-> cs.name,
     index |-> SubSeq(cs.index, 1, Len(cs.index) - 1),
     columns |-> <<"code", "name">>,
     data |-> [k \in 1..(Len(cs.index) - 1) |->
                  << cs.values[k], ns.values[k] >>]]

\* pd.DataFrame({"code": code, "name": name}) of two series with the
\* same index
DataFrame2(cs, ns) ==
    [name |-> cs.name,
     index |-> cs.index,
     columns |-> <<"code", "name">>,
     data |-> [k \in 1..Len(cs.index) |->
                  << cs.values[k], ns.values[k] >>]]

\* the lines DataFrame.to_csv writes: a header of the index name and the
\* column names, then each row led by its index label
CsvLines(d) ==
    << <<d.name>> \o d.columns >> \o
    [k \in 1..Len(d.data) |-> <<d.index[k]>> \o d.data[k]]

\* variant: the first TailRows rows (df.head())
tail_head(d) ==
    [d EXCEPT !.index = SubSeq(d.index, 1, IF Len(d.index) < TailRows
                                           THEN Len(d.index) ELSE TailRows),
              !.data = SubSeq(d.data, 1, IF Len(d.data) < TailRows
                                         THEN Len(d.data) ELSE TailRows)]

\* df.tail(): the last TailRows rows
tail(d) ==
    [d EXCEPT !.index = SubSeq(d.index, Max(1, Len(d.index) - TailRows + 1),
                               Len(d.index)),
              !.data = SubSeq(d.data, Max(1, Len(d.data) - TailRows + 1),
                              Len(d.data))]

(* -------- the file system -------- *)

ListPath(market) == "data/" \o market \o ".txt"

PriceDir(market) == "data/" \o market

PricePath(market, c) == "data/" \o market \o "/" \o c

\* Path(p).mkdir(parents=True, exist_ok=True)
Mkdir(ds, parents, p) == ds \cup parents \cup {p}

\* variant: the file is opened for appending
to_csv_append(f, path, lines) ==
    [p \in DOMAIN f \cup {path} |->
        IF p = path
        THEN (IF path \in DOMAIN f THEN f[path] \o lines ELSE lines)
        ELSE f[p]]

\* variant: the other files are removed
to_csv_clean(f, path, lines) == [p \in {path} |-> lines]

\* df.to_csv(path): create or truncate the file, write the lines
to_csv(f, path, lines) ==
    [p \in DOMAIN f \cup {path} |-> IF p = path THEN lines ELSE f[p]]

\* what a write that fails part-way can leave at the path
PartialWrites(lines) == { SubSeq(lines, 1, k) : k \in 0..(Len(lines) - 1) }

(* -------- the run -------- *)

Call(op, a) == [op |-> op, arg |-> a]

\* value: the argument of the last bar.update, -1 before the first
NoBar == [maxval |-> 0, started |-> FALSE, value |-> -1]

Init ==
    /\ pc = "idle"
    /\ cmd = "" /\ arg = ""
    /\ listing = EmptyDF /\ df = EmptyDF
    /\ codes = <<>> /\ iter = 0 /\ i = 0 /\ code = "" /\ bar = NoBar
    /\ fs = <<>> /\ dirs = {}
    /\ stdout = <<>> /\ exitCode = -1
    /\ log = <<>> /\ written = <<>>
    /\ fs0 = <<>> /\ dirs0 = {}
    /\ prevResponse = EmptyDF /\ rerun = FALSE

Ended == pc \in {"idle", "done", "exited", "crashed"}

\* app(): the process starts with one command and its argument; the
\* files of earlier runs are on disk
Invoke ==
    /\ Ended
    /\ \E c \in Commands :
         \E a \in (IF c = "prices" THEN CodeArgs ELSE MarketArgs) :
            /\ cmd' = c
            /\ arg' = a
            /\ prevResponse' =
                 IF c = "list_tickers" /\ cmd = c /\ arg = a /\ pc = "done"
                 THEN listing ELSE EmptyDF
    /\ pc' = "start"
    /\ listing' = EmptyDF /\ df' = EmptyDF
    /\ codes' = <<>> /\ iter' = 0 /\ i' = 0 /\ code' = "" /\ bar' = NoBar
    /\ stdout' = <<>> /\ exitCode' = -1
    /\ log' = <<>> /\ written' = <<>>
    /\ fs0' = fs /\ dirs0' = dirs
    /\ rerun' = FALSE
    /\ UNCHANGED <<fs, dirs>>

\* an uncaught exception ends the process
Crash ==
    /\ pc' = "crashed"
    /\ exitCode' = 1

\* lines 36-38 and 58-60
Validate(next) ==
    /\ pc = "start"
    /\ IF ~IsSupported(arg)
       THEN /\ stdout' = Append(stdout, UnsupportedMessage(arg))
            /\ pc' = "exited"
            /\ exitCode' = 0
       ELSE /\ pc' = next
            /\ UNCHANGED <<stdout, exitCode>>
    /\ UNCHANGED <<cmd, arg, listing, df, codes, iter, i, code, bar, log,
                   written, fs, dirs, fs0, dirs0, prevResponse, rerun>>

(* ---- list_tickers ---- *)

LT_Validate == cmd = "list_tickers" /\ Validate("lt_fetch")

LT_StockListing ==
    /\ pc = "lt_fetch"
    /\ log' = Append(log, Call("StockListing", arg))
    /\ \E t \in ListingTables :
          /\ listing' = t
          /\ rerun' = (prevResponse # EmptyDF /\ t = prevResponse)
    /\ prevResponse' = EmptyDF
    /\ pc' = "lt_select"
    /\ UNCHANGED <<cmd, arg, df, codes, iter, i, code, bar, stdout, exitCode,
                   written, fs, dirs, fs0, dirs0>>

LT_StockListingFails ==
    /\ pc = "lt_fetch"
    /\ log' = Append(log, Call("StockListing", arg))
    /\ prevResponse' = EmptyDF
    /\ Crash
    /\ UNCHANGED <<cmd, arg, listing, df, codes, iter, i, code, bar, stdout,
                   written, fs, dirs, fs0, dirs0, rerun>>

\* lines 41-43: pick the identifier column, take Name, build the frame;
\* a missing column raises KeyError
LT_Normalize ==
    /\ pc = "lt_select"
    /\ IF HasColumn(listing, IdColumn(listing)) /\ HasColumn(listing, "Name")
       THEN /\ df' = DataFrame2(Column(listing, IdColumn(listing)),
                                Column(listing, "Name"))
            /\ pc' = "lt_mkdir"
            /\ UNCHANGED exitCode
       ELSE /\ Crash
            /\ UNCHANGED df
    /\ UNCHANGED <<cmd, arg, listing, codes, iter, i, code, bar, stdout, log,
                   written, fs, dirs, fs0, dirs0, prevResponse, rerun>>

LT_Mkdir ==
    /\ pc = "lt_mkdir"
    /\ log' = Append(log, Call("mkdir", "data"))
    /\ dirs' = Mkdir(dirs, {}, "data")
    /\ pc' = "lt_write"
    /\ UNCHANGED <<cmd, arg, listing, df, codes, iter, i, code, bar, stdout,
                   exitCode, written, fs, fs0, dirs0, prevResponse, rerun>>

LT_MkdirFails ==
    /\ pc = "lt_mkdir"
    /\ log' = Append(log, Call("mkdir", "data"))
    /\ Crash
    /\ UNCHANGED <<cmd, arg, listing, df, codes, iter, i, code, bar, stdout,
                   written, fs, dirs, fs0, dirs0, prevResponse, rerun>>

LT_ToCsv ==
    /\ pc = "lt_write"
    /\ log' = Append(log, Call("to_csv", ListPath(arg)))
    /\ fs' = to_csv(fs, ListPath(arg), CsvLines(df))
    /\ pc' = "done"
    /\ exitCode' = 0
    /\ UNCHANGED <<cmd, arg, listing, df, codes, iter, i, code, bar, stdout,
                   written, dirs, fs0, dirs0, prevResponse, rerun>>

LT_ToCsvFails ==
    /\ pc = "lt_write"
    /\ log' = Append(log, Call("to_csv", ListPath(arg)))
    /\ \/ UNCHANGED fs
       \/ \E part \in PartialWrites(CsvLines(df)) :
             fs' = to_csv(fs, ListPath(arg), part)
    /\ Crash
    /\ UNCHANGED <<cmd, arg, listing, df, codes, iter, i, code, bar, stdout,
                   written, dirs, fs0, dirs0, prevResponse, rerun>>

(* ---- prices ---- *)

P_DataReader ==
    /\ pc = "start" /\ cmd = "prices"
    /\ log' = Append(log, Call("DataReader", arg))
    /\ \E t \in PriceTables(MaxTailRows) : df' = t
    /\ pc' = "p_print"
    /\ UNCHANGED <<cmd, arg, listing, codes, iter, i, code, bar, stdout,
                   exitCode, written, fs, dirs, fs0, dirs0, prevResponse,
                   rerun>>

P_DataReaderFails ==
    /\ pc = "start" /\ cmd = "prices"
    /\ log' = Append(log, Call("DataReader", arg))
    /\ Crash
    /\ UNCHANGED <<cmd, arg, listing, df, codes, iter, i, code, bar, stdout,
                   written, fs, dirs, fs0, dirs0, prevResponse, rerun>>

P_Print ==
    /\ pc = "p_print"
    /\ stdout' = Append(stdout, tail(df))
    /\ pc' = "done"
    /\ exitCode' = 0
    /\ UNCHANGED <<cmd, arg, listing, df, codes, iter, i, code, bar, log,
                   written, fs, dirs, fs0, dirs0, prevResponse, rerun>>

(* ---- market_prices ---- *)

\* variant: enumerate(codes, start=1)
Enumerate_from1(cs) == [k \in 1..Len(cs) |-> << k, cs[k] >>]

\* enumerate(codes, start=0)
Enumerate(cs) == [k \in 1..Len(cs) |-> << k - 1, cs[k] >>]

\* variant: the loop leaves out the last ticker
LoopPc_short(n, cs) == IF n < Len(cs) - 1 THEN "mp_fetch" ELSE "done"

\* the for statement: another iteration, or the end of the command
LoopPc(n, cs) == IF n < Len(cs) THEN "mp_fetch" ELSE "done"

MP_Validate == cmd = "market_prices" /\ Validate("mp_listing")

MP_StockListing ==
    /\ pc = "mp_listing"
    /\ log' = Append(log, Call("StockListing", arg))
    /\ \E t \in ListingTables : listing' = t
    /\ pc' = "mp_select"
    /\ UNCHANGED <<cmd, arg, df, codes, iter, i, code, bar, stdout, exitCode,
                   written, fs, dirs, fs0, dirs0, prevResponse, rerun>>

MP_StockListingFails ==
    /\ pc = "mp_listing"
    /\ log' = Append(log, Call("StockListing", arg))
    /\ Crash
    /\ UNCHANGED <<cmd, arg, listing, df, codes, iter, i, code, bar, stdout,
                   written, fs, dirs, fs0, dirs0, prevResponse, rerun>>

\* lines 63-66: pick the identifier column (KeyError when there is none),
\* start the bar, enter the loop
MP_Select ==
    /\ pc = "mp_select"
    /\ IF HasColumn(listing, IdColumn(listing))
       THEN /\ codes' = Column(listing, IdColumn(listing)).values
            /\ bar' = [maxval |-> Len(codes'), started |-> TRUE, value |-> -1]
            /\ pc' = LoopPc(0, codes')
            /\ exitCode' = IF pc' = "done" THEN 0 ELSE exitCode
       ELSE /\ Crash
            /\ UNCHANGED <<codes, bar>>
    /\ UNCHANGED <<cmd, arg, listing, df, iter, i, code, stdout, log, written,
                   fs, dirs, fs0, dirs0, prevResponse, rerun>>

\* the loop variables of the next iteration
LoopVars ==
    /\ i' = Enumerate(codes)[iter + 1][1]
    /\ code' = Enumerate(codes)[iter + 1][2]

MP_DataReader ==
    /\ pc = "mp_fetch"
    /\ LoopVars
    /\ log' = Append(log, Call("DataReader", code'))
    /\ \E t \in PriceTables(MaxBatchRows) : df' = t
    /\ pc' = "mp_mkdir"
    /\ UNCHANGED <<cmd, arg, listing, codes, iter, bar, stdout, exitCode,
                   written, fs, dirs, fs0, dirs0, prevResponse, rerun>>

\* variant: a failing fetch restores the disk of the start of the run
MP_DataReaderFails_rollback ==
    /\ pc = "mp_fetch"
    /\ LoopVars
    /\ log' = Append(log, Call("DataReader", code'))
    /\ fs' = fs0
    /\ Crash
    /\ UNCHANGED <<cmd, arg, listing, df, codes, iter, bar, stdout,
                   written, dirs, fs0, dirs0, prevResponse, rerun>>

MP_DataReaderFails ==
    /\ pc = "mp_fetch"
    /\ LoopVars
    /\ log' = Append(log, Call("DataReader", code'))
    /\ Crash
    /\ UNCHANGED <<cmd, arg, listing, df, codes, iter, bar, stdout,
                   written, fs, dirs, fs0, dirs0, prevResponse, rerun>>

MP_Mkdir ==
    /\ pc = "mp_mkdir"
    /\ log' = Append(log, Call("mkdir", PriceDir(arg)))
    /\ dirs' = Mkdir(dirs, {"data"}, PriceDir(arg))
    /\ pc' = "mp_write"
    /\ UNCHANGED <<cmd, arg, listing, df, codes, iter, i, code, bar, stdout,
                   exitCode, written, fs, fs0, dirs0, prevResponse, rerun>>

\* the parent may have been created before the failure
MP_MkdirFails ==
    /\ pc = "mp_mkdir"
    /\ log' = Append(log, Call("mkdir", PriceDir(arg)))
    /\ \/ UNCHANGED dirs
       \/ dirs' = Mkdir(dirs, {}, "data")
    /\ Crash
    /\ UNCHANGED <<cmd, arg, listing, df, codes, iter, i, code, bar, stdout,
                   written, fs, fs0, dirs0, prevResponse, rerun>>

MP_ToCsv ==
    /\ pc = "mp_write"
    /\ log' = Append(log, Call("to_csv", PricePath(arg, code)))
    /\ fs' = to_csv(fs, PricePath(arg, code), CsvLines(df))
    /\ written' = Append(written, CsvLines(df))
    /\ pc' = "mp_update"
    /\ UNCHANGED <<cmd, arg, listing, df, codes, iter, i, code, bar, stdout,
                   exitCode, dirs, fs0, dirs0, prevResponse, rerun>>

MP_ToCsvFails ==
    /\ pc = "mp_write"
    /\ log' = Append(log, Call("to_csv", PricePath(arg, code)))
    /\ \/ UNCHANGED fs
       \/ \E part \in PartialWrites(CsvLines(df)) :
             fs' = to_csv(fs, PricePath(arg, code), part)
    /\ Crash
    /\ UNCHANGED <<cmd, arg, listing, df, codes, iter, i, code, bar, stdout,
                   written, dirs, fs0, dirs0, prevResponse, rerun>>

\* bar.update(i), then the for statement again
MP_Update ==
    /\ pc = "mp_update"
    /\ log' = Append(log, Call("update", ToString(i)))
    /\ bar' = [bar EXCEPT !.value = i]
    /\ iter' = iter + 1
    /\ pc' = LoopPc(iter', codes)
    /\ exitCode' = IF pc' = "done" THEN 0 ELSE exitCode
    /\ UNCHANGED <<cmd, arg, listing, df, codes, i, code, stdout, written,
                   fs, dirs, fs0, dirs0, prevResponse, rerun>>

Next ==
    \/ Invoke
    \/ LT_Validate \/ LT_StockListing \/ LT_StockListingFails
    \/ LT_Normalize \/ LT_Mkdir \/ LT_MkdirFails
    \/ LT_ToCsv \/ LT_ToCsvFails
    \/ P_DataReader \/ P_DataReaderFails \/ P_Print
    \/ MP_Validate \/ MP_StockListing \/ MP_StockListingFails
    \/ MP_Select
    \/ MP_DataReader \/ MP_DataReaderFails
    \/ MP_Mkdir \/ MP_MkdirFails
    \/ MP_ToCsv \/ MP_ToCsvFails
    \/ MP_Update

Spec == Init /\ [][Next]_vars

(***************************************************************************)
(* Properties                                                              *)
(***************************************************************************)

\* the identifier values the selection rule prescribes for a listing:
\* those of "Code" when there is such a column, else those of "Symbol"
ExpectedIds(t) ==
    IF "Code" \in Range(t.columns)
    THEN [k \in 1..Len(t.data) |-> t.data[k][ColPos(t, "Code")]]
    ELSE [k \in 1..Len(t.data) |-> t.data[k][ColPos(t, "Symbol")]]

HasId(t) == "Code" \in Range(t.columns) \/ "Symbol" \in Range(t.columns)

Calls(op) == { k \in 1..Len(log) : log[k].op = op }

WrittenPaths == { log[k].arg : k \in Calls("to_csv") }

\* the paths whose file this run created or changed
Touched ==
    { p \in DOMAIN fs : p \notin DOMAIN fs0 \/ fs[p] # fs0[p] } \cup
    { p \in DOMAIN fs0 : p \notin DOMAIN fs }

TheListPath == "data/" \o arg \o ".txt"

ThePricePath(c) == "data/" \o arg \o "/" \o c

MarketCommand == cmd \in {"list_tickers", "market_prices"}

\* C1: a market name that is not literally in the allow-list makes
\* list_tickers and market_prices print the message naming it and exit
\* with code 0, without a provider call, a new directory or a file.
C1_UnsupportedMarketExitsCleanly ==
    (MarketCommand /\ arg \notin Range(market_list) /\ pc # "start") =>
        /\ pc = "exited"
        /\ exitCode = 0
        /\ log = <<>>
        /\ fs = fs0
        /\ dirs = dirs0
        /\ stdout = << arg \o " market is not supports" >>

C1_Witness ==
    /\ cmd = "market_prices" /\ arg = "kospi" /\ pc = "exited"
    /\ DOMAIN fs0 # {}

\* C2: a completed list_tickers run made exactly one write, to
\* data/<market>.txt, and the rows of that file are the listing's rows in
\* order, each with that row's identifier and name; a listing with an
\* identifier column and a Name column is never rejected.
C2_ListFileIsProjection ==
    /\ (cmd = "list_tickers" /\ pc = "done") =>
          /\ Cardinality(Calls("to_csv")) = 1
          /\ WrittenPaths = {TheListPath}
          /\ Touched \subseteq {TheListPath}
          /\ TheListPath \in DOMAIN fs
          /\ Len(fs[TheListPath]) = Len(listing.data) + 1
          /\ \A k \in 1..Len(listing.data) :
                /\ fs[TheListPath][k + 1][2] = ExpectedIds(listing)[k]
                /\ fs[TheListPath][k + 1][3] =
                      listing.data[k][ColPos(listing, "Name")]
    /\ (cmd = "list_tickers" /\ pc = "crashed" /\ Len(log) = 1
            /\ listing # EmptyDF) =>
          ~(HasId(listing) /\ "Name" \in Range(listing.columns))

C2_Witness ==
    /\ cmd = "list_tickers" /\ pc = "done"
    /\ Len(listing.data) = 2
    /\ listing.data[1] # listing.data[2]
    /\ "Code" \notin Range(listing.columns)

FetchesAndWritesPerRow ==
    /\ Cardinality(Calls("DataReader")) = Len(listing.data)
    /\ Cardinality(Calls("to_csv")) = Len(listing.data)

\* C3 as stated: a completed market_prices run over a listing of N rows
\* made N price fetches and left N files written by the run.
C3_ExactlyNFiles ==
    (cmd = "market_prices" /\ pc = "done") =>
        /\ FetchesAndWritesPerRow
        /\ Cardinality(WrittenPaths) = Len(listing.data)

\* C3 amended: a completed market_prices run over a listing of N rows made
\* N price fetches and N writes; the files it wrote are exactly
\* data/<market>/<code> for the codes of the listing, one per distinct
\* code, hence N files when no code is repeated.
C3_OneFilePerDistinctCode ==
    (cmd = "market_prices" /\ pc = "done") =>
        /\ FetchesAndWritesPerRow
        /\ WrittenPaths = { ThePricePath(c) : c \in Range(ExpectedIds(listing)) }
        /\ WrittenPaths \subseteq DOMAIN fs
        /\ Cardinality(WrittenPaths) = Cardinality(Range(ExpectedIds(listing)))
        /\ (\A j, k \in 1..Len(listing.data) :
                j # k => ExpectedIds(listing)[j] # ExpectedIds(listing)[k])
              => Cardinality(WrittenPaths) = Len(listing.data)

C3_Witness ==
    /\ cmd = "market_prices" /\ pc = "done"
    /\ Len(listing.data) = 2
    /\ Cardinality(WrittenPaths) = 2
    /\ WrittenPaths \subseteq DOMAIN fs

\* C4: in both commands the identifier column is "Code" whenever the
\* listing has it, with or without "Symbol", and "Symbol" when the listing
\* has "Symbol" and no "Code".
C4_IdentifierColumn ==
    /\ (cmd = "market_prices" /\ bar.started) => codes = ExpectedIds(listing)
    /\ (cmd = "list_tickers" /\ df # EmptyDF) =>
          /\ Len(df.data) = Len(listing.data)
          /\ \A k \in 1..Len(df.data) : df.data[k][1] = ExpectedIds(listing)[k]

C4_Witness ==
    /\ cmd = "list_tickers" /\ df # EmptyDF
    /\ {"Code", "Symbol"} \subseteq Range(listing.columns)
    /\ Len(listing.data) = 2

\* C5: the file of a completed list_tickers run is a header and one row
\* per listing row, and header and rows have the two columns code, name
\* and no other.
C5_ColumnsExactlyCodeName ==
    (cmd = "list_tickers" /\ pc = "done") =>
        /\ Len(fs[TheListPath]) = Len(listing.data) + 1
        /\ fs[TheListPath][1] = <<"code", "name">>
        /\ \A k \in 2..Len(fs[TheListPath]) : Len(fs[TheListPath][k]) = 2

\* the crash of a market_prices run inside its loop
InLoopCrash == cmd = "market_prices" /\ pc = "crashed" /\ bar.started

\* the ticker whose fetch or write failed: the one after the tickers
\* whose file was written
FailedAt == Len(written) + 1

\* the run stopped at the failing ticker: it was fetched, no later one
\* was, and the failing call is the last call made
StoppedThere ==
    /\ Cardinality(Calls("DataReader")) = FailedAt
    /\ Cardinality(Calls("to_csv")) \in {FailedAt - 1, FailedAt}
    /\ Cardinality(Calls("update")) = FailedAt - 1
    /\ log[Len(log)].op \in {"DataReader", "mkdir", "to_csv"}
    /\ exitCode = 1

\* the process is over: the next thing to happen is another invocation,
\* which finds the disk as the crash left it
NothingAfter == pc' = "start" /\ fs' = fs /\ dirs' = dirs

KeptAsWritten ==
    \A j \in 1..Len(written) :
        /\ ThePricePath(ExpectedIds(listing)[j]) \in DOMAIN fs
        /\ fs[ThePricePath(ExpectedIds(listing)[j])] = written[j]

\* the latest of the completed writes to the path of ticker j
LatestWrite(j) ==
    written[CHOOSE m \in j..Len(written) :
               /\ ExpectedIds(listing)[m] = ExpectedIds(listing)[j]
               /\ \A n \in (m + 1)..Len(written) :
                     ExpectedIds(listing)[n] # ExpectedIds(listing)[j]]

\* the failing call is the file write of a ticker with the code of ticker j
FailedWriteShares(j) ==
    /\ log[Len(log)].op = "to_csv"
    /\ ExpectedIds(listing)[FailedAt] = ExpectedIds(listing)[j]

KeptLatest ==
    \A j \in 1..Len(written) :
        /\ ThePricePath(ExpectedIds(listing)[j]) \in DOMAIN fs
        /\ ~FailedWriteShares(j) =>
              fs[ThePricePath(ExpectedIds(listing)[j])] = LatestWrite(j)

\* C6 as stated: when the fetch or the write of the k-th ticker fails the
\* run ends there, nothing is attempted for a later ticker, and the files
\* of tickers 1..k-1 are on disk with the content written for them.
C6_FailureStopsAndKeepsFiles ==
    [][ /\ InLoopCrash' => (StoppedThere' /\ KeptAsWritten')
        /\ InLoopCrash => NothingAfter ]_vars

\* C6 amended: when the fetch or the write of the k-th ticker fails the
\* run ends there and nothing is attempted for a later ticker; the files
\* of tickers 1..k-1 are on disk, each with the content of the latest of
\* those writes to its path, except the file of a ticker whose code is
\* also that of the k-th ticker when it is the k-th write that failed.
C6_FailureStopsAndKeepsLatest ==
    [][ /\ InLoopCrash' => (StoppedThere' /\ KeptLatest')
        /\ InLoopCrash => NothingAfter ]_vars

C6_Witness ==
    /\ InLoopCrash
    /\ Len(written) = 1
    /\ log[Len(log)].op = "DataReader"
    /\ ThePricePath(ExpectedIds(listing)[1]) \notin DOMAIN fs0
    /\ fs[ThePricePath(ExpectedIds(listing)[1])] = written[1]

\* C7: a list_tickers run that follows a completed list_tickers run for
\* the same market and gets the same listing leaves data/<market>.txt
\* with the content the first run left.
C7_RerunSameContent ==
    (cmd = "list_tickers" /\ pc = "done" /\ rerun) =>
        /\ TheListPath \in DOMAIN fs0
        /\ fs[TheListPath] = fs0[TheListPath]

C7_Witness ==
    /\ cmd = "list_tickers" /\ pc = "done" /\ rerun
    /\ Len(listing.data) = 2

Min(a, b) == IF a <= b THEN a ELSE b

\* C8: prices makes one price fetch, leaves files and directories as they
\* were, and prints the last 5 rows of the table in order, all of them
\* when there are fewer.
C8_PricesPrintsTailOnly ==
    cmd = "prices" =>
        /\ fs = fs0 /\ dirs = dirs0
        /\ Len(log) = (IF pc = "start" THEN 0 ELSE 1)
        /\ \A k \in 1..Len(log) : log[k] = [op |-> "DataReader", arg |-> arg]
        /\ pc = "done" =>
              /\ Len(stdout) = 1
              /\ Len(stdout[1].data) = Min(5, Len(df.data))
              /\ \A k \in 1..Len(stdout[1].data) :
                    LET from == Len(df.data) - Len(stdout[1].data)
                    IN  /\ stdout[1].data[k] = df.data[from + k]
                        /\ stdout[1].index[k] = df.index[from + k]

C8_Witness ==
    /\ cmd = "prices" /\ pc = "done"
    /\ Len(df.data) = 6
    /\ DOMAIN fs # {}

\* the n-th call of a market_prices run over the listing, n >= 2
CanonicalCall(n) ==
    LET k == ((n - 2) \div 4) + 1
        r == (n - 2) % 4
    IN  CASE r = 0 -> [op |-> "DataReader", arg |-> ExpectedIds(listing)[k]]
          [] r = 1 -> [op |-> "mkdir", arg |-> "data/" \o arg]
          [] r = 2 -> [op |-> "to_csv",
                       arg |-> ThePricePath(ExpectedIds(listing)[k])]
          [] r = 3 -> [op |-> "update", arg |-> ToString(k - 1)]

\* C9: market_prices fetches the listing once and first, then for each
\* ticker in listing order fetches, writes, updates the bar, in that
\* order; the bar takes the values 0..N-1 in order, value i after the
\* file of the ticker at index i is written.
C9_SequentialInListingOrder ==
    cmd = "market_prices" =>
        /\ Len(log) >= 1 => log[1] = [op |-> "StockListing", arg |-> arg]
        /\ ~bar.started => Len(log) <= 1
        /\ bar.started =>
              /\ Len(log) <= 1 + 4 * Len(listing.data)
              /\ \A n \in 2..Len(log) : log[n] = CanonicalCall(n)
              /\ bar.maxval = Len(listing.data)
        /\ pc = "done" => Len(log) = 1 + 4 * Len(listing.data)
        /\ bar.value = Cardinality(Calls("update")) - 1
        /\ bar.value >= 0 =>
              /\ Len(written) >= bar.value + 1
              /\ ThePricePath(ExpectedIds(listing)[bar.value + 1]) \in DOMAIN fs

C9_Witness ==
    /\ cmd = "market_prices" /\ pc = "done"
    /\ Len(listing.data) = 2
    /\ bar.value = 1

\* the paths a run derives from its argument and its listing
Derived ==
    IF cmd = "list_tickers" THEN {TheListPath}
    ELSE IF cmd = "market_prices" /\ bar.started
         THEN { ThePricePath(c) : c \in Range(ExpectedIds(listing)) }
         ELSE {}

\* C10: a list_tickers or market_prices run removes no file and creates
\* or changes files only at the paths it derives; a completed write
\* leaves the new content at its path, whatever was there.
C10_OnlyDerivedPathsTouched ==
    MarketCommand =>
        /\ Touched \subseteq Derived
        /\ DOMAIN fs0 \subseteq DOMAIN fs
        /\ (cmd = "market_prices" /\ pc = "mp_update") =>
              fs[ThePricePath(ExpectedIds(listing)[iter + 1])] =
                  written[Len(written)]
        /\ (cmd = "list_tickers" /\ pc = "done") =>
              Len(fs[TheListPath]) = Len(listing.data) + 1

C10_Witness ==
    /\ cmd = "market_prices" /\ pc = "done"
    /\ Len(listing.data) = 1
    /\ TheListPath \in DOMAIN fs0
    /\ \E p \in DOMAIN fs0 : p # TheListPath /\ p \notin Derived
    /\ ThePricePath(ExpectedIds(listing)[1]) \in DOMAIN fs0
    /\ fs0[ThePricePath(ExpectedIds(listing)[1])] #
          fs[ThePricePath(ExpectedIds(listing)[1])]

====
